---- MODULE Spec2Model ----
(***************************************************************************)
(* State-machine model of the Direct3D 9 texture cache back end            *)
(* (GPU/Directx9/TextureCacheDX9.cpp): palette (CLUT) update, texture      *)
(* build, binding, framebuffer-as-texture resolution, per-frame            *)
(* housekeeping and the debug read-back.                                   *)
(***************************************************************************)
EXTENDS Integers, Sequences, FiniteSets, TLC

VARIABLES
    clutBuf_,               \* current palette, read as 16-bit entries (1-based)
    clutTotalBytes_,        \* bytes of the last palette upload
    clutMaxBytes_,          \* most bytes uploaded so far
    clutHash_,              \* digest of the hashed palette range
    clutAlphaLinear_,       \* palette is a pure alpha ramp of one colour
    clutAlphaLinearColor_,  \* the colour of that ramp
    entries,                \* cache entry -> [tex, status]
    live,                   \* native texture objects created and not released
    lastBoundTexture,       \* memo of the texture last set at unit 0
    dev,                    \* device: texture units 0/1 and render target
    clearCacheNextFrame_,   \* a full clear was requested for the next frame
    buffer,                 \* the debugger's output buffer
    timesInvalidatedAllThisFrame_,  \* full invalidations since the frame began
    texelsScaledThisFrame_,         \* texels upscaled since the frame began
    replacementTimeThisFrame_,      \* time spent loading replacements, in ticks
    call                    \* the last operation, its inputs and what it did

vars == <<clutBuf_, clutTotalBytes_, clutMaxBytes_, clutHash_, clutAlphaLinear_, clutAlphaLinearColor_, entries, live,
          lastBoundTexture, dev, clearCacheNextFrame_, buffer,
          timesInvalidatedAllThisFrame_, texelsScaledThisFrame_,
          replacementTimeThisFrame_, call>>

clutVars == <<clutBuf_, clutTotalBytes_, clutMaxBytes_, clutHash_,
              clutAlphaLinear_, clutAlphaLinearColor_>>
frameVars == <<timesInvalidatedAllThisFrame_, texelsScaledThisFrame_,
               replacementTimeThisFrame_>>
cacheVars == <<entries, live, lastBoundTexture, dev, clearCacheNextFrame_, buffer,
               frameVars>>

(***************************************************************************)
(* Fixed-width integer helpers.                                            *)
(***************************************************************************)
RECURSIVE BitAnd(_, _)
BitAnd(a, b) ==
    IF a = 0 \/ b = 0 THEN 0
    ELSE (IF a % 2 = 1 /\ b % 2 = 1 THEN 1 ELSE 0) + 2 * BitAnd(a \div 2, b \div 2)

RECURSIVE BitOr(_, _)
BitOr(a, b) ==
    IF a = 0 THEN b
    ELSE IF b = 0 THEN a
    ELSE (IF a % 2 = 1 \/ b % 2 = 1 THEN 1 ELSE 0) + 2 * BitOr(a \div 2, b \div 2)

U16(x) == x % 65536

(***************************************************************************)
(* Palette (CLUT).                                                         *)
(***************************************************************************)
PaletteFormats == {"GE_CMODE_16BIT_BGR5650", "GE_CMODE_16BIT_ABGR5551",
                   "GE_CMODE_16BIT_ABGR4444", "GE_CMODE_32BIT_ABGR8888"}

\* entry i of a 16-entry ramp over colour `base`
RampEntry(base, i) == U16(BitOr(base, i * 4096))
Ramp(base) == [k \in 1..16 |-> RampEntry(base, k - 1)]

\* base colours the guest uploads in this model: 12-bit colours, and values
\* whose alpha nibble is already set
ClutBases == {0, 2748, 64188}

\* ways one entry of an uploaded ramp may deviate: alpha nibble off by one
\* step, or a colour bit flipped
Deviate(v, how) ==
    CASE how = "alpha"  -> U16(v + 4096)
      [] how = "colour" -> IF v % 2 = 0 THEN v + 1 ELSE v - 1
      [] OTHER -> v

Palettes ==
    { Ramp(b) : b \in ClutBases } \cup
    { [Ramp(b) EXCEPT ![k] = Deviate(@, how)] :
        b \in ClutBases, k \in {1, 8, 16}, how \in {"alpha", "colour"} }


ClutLoadBytes == {16, 32}

Min(a, b) == IF a < b THEN a ELSE b
Max(a, b) == IF a < b THEN b ELSE a

\* The digest is opaque: it is modelled by what it is a function of, the
\* algorithm and the bytes hashed (here the 16-bit entries those bytes cover).
HashOf(alg, clut, nbytes) ==
    [alg |-> alg, len |-> nbytes,
     data |-> SubSeq(clut, 1, Min(Len(clut), (nbytes + 1) \div 2))]

clutExtendedBytesUncapped(clutFormat, clutBase) ==
    clutTotalBytes_ + clutBase * (IF clutFormat = "GE_CMODE_32BIT_ABGR8888" THEN 4 ELSE 2)

\* u32 arithmetic; the operands (a palette offset and a palette size) stay
\* far below the width, so no wrap-around can occur
clutExtendedBytes(clutFormat, clutBase) ==
    LET clutBaseBytes ==
            clutBase * (IF clutFormat = "GE_CMODE_32BIT_ABGR8888" THEN 4 ELSE 2)
    IN Min(clutTotalBytes_ + clutBaseBytes, clutMaxBytes_)

\* the loop of the alpha-ramp detection, from entry i on
RECURSIVE AlphaLinearLoop(_, _, _)
AlphaLinearLoop(clut, color, i) ==
    IF i >= 16 THEN TRUE
    ELSE IF clut[i + 1] # U16(BitOr(color, i * 4096)) THEN FALSE
    ELSE AlphaLinearLoop(clut, color, i + 1)

\* <<clutAlphaLinear_, clutAlphaLinearColor_>> as UpdateCurrentClut leaves them
AlphaLinearDetectNoMask(clut, clutFormat, clutIndexIsSimple) ==
    IF clutFormat = "GE_CMODE_16BIT_ABGR4444" /\ clutIndexIsSimple
    THEN <<AlphaLinearLoop(clut, clut[16], 0), clut[16]>>
    ELSE <<FALSE, 0>>

AlphaLinearDetectSticky(clut, clutFormat, clutIndexIsSimple) ==
    IF clutFormat = "GE_CMODE_16BIT_ABGR4444" /\ clutIndexIsSimple
    THEN LET color == BitAnd(clut[16], 4095)
         IN <<AlphaLinearLoop(clut, color, 0), color>>
    ELSE <<clutAlphaLinear_, clutAlphaLinearColor_>>

AlphaLinearDetect(clut, clutFormat, clutIndexIsSimple) ==
    IF clutFormat = "GE_CMODE_16BIT_ABGR4444" /\ clutIndexIsSimple
    THEN LET color == BitAnd(clut[16], 4095)
         IN <<AlphaLinearLoop(clut, color, 0), color>>
    ELSE <<FALSE, 0>>

\* An earlier UpdateCurrentClut call kept for comparison: its inputs and what
\* it left. NoRef: none kept.
NoRef == [set |-> FALSE]

CallRef == IF "ref" \in DOMAIN call THEN [call.ref EXCEPT !.fresh = FALSE] ELSE NoRef

\* The guest uploads a palette (TextureCacheCommon::LoadClut).
LoadClutOn(Pals, Sizes) ==
    \E pal \in Pals, n \in Sizes :
        /\ clutBuf_' = pal
        /\ clutTotalBytes_' = n
        /\ clutMaxBytes_' = Max(clutMaxBytes_, n)
        /\ call' = [op |-> "LoadClut", ref |-> IF CallRef.set THEN CallRef ELSE NoRef]
        /\ UNCHANGED <<clutHash_, clutAlphaLinear_, clutAlphaLinearColor_>>
        /\ UNCHANGED cacheVars

LoadClut == LoadClutOn(Palettes, ClutLoadBytes)

\* Keep: whether the call may be kept for comparison with later ones
UpdateCurrentClutOn(Formats, Bases, Simples, Keep) ==
    \E clutFormat \in Formats, clutBase \in Bases,
       clutIndexIsSimple \in Simples, replacerEnabled \in BOOLEAN, keep \in Keep :
        LET n == clutExtendedBytes(clutFormat, clutBase)
            det == AlphaLinearDetect(clutBuf_, clutFormat, clutIndexIsSimple)
            hash == HashOf(IF replacerEnabled THEN "XXH32" ELSE "XXH3_64bits",
                           clutBuf_, n)
        IN  /\ clutHash_' = hash
            /\ clutAlphaLinear_' = det[1]
            /\ clutAlphaLinearColor_' = det[2]
            /\ call' = [op |-> "UpdateCurrentClut", clutFormat |-> clutFormat,
                        clutBase |-> clutBase, clutIndexIsSimple |-> clutIndexIsSimple,
                        replacerEnabled |-> replacerEnabled, hashedBytes |-> n,
                        ref |-> IF keep
                                THEN [set |-> TRUE, fresh |-> TRUE,
                                      clutBuf_ |-> clutBuf_,
                                      clutTotalBytes_ |-> clutTotalBytes_,
                                      clutMaxBytes_ |-> clutMaxBytes_,
                                      clutFormat |-> clutFormat, clutBase |-> clutBase,
                                      clutIndexIsSimple |-> clutIndexIsSimple,
                                      replacerEnabled |-> replacerEnabled,
                                      clutHash_ |-> hash,
                                      clutAlphaLinear_ |-> det[1],
                                      clutAlphaLinearColor_ |-> det[2]]
                                ELSE IF CallRef.set THEN CallRef ELSE NoRef]
            /\ UNCHANGED <<clutBuf_, clutTotalBytes_, clutMaxBytes_>>
            /\ UNCHANGED cacheVars

UpdateCurrentClut == UpdateCurrentClutOn(PaletteFormats, {0, 16}, BOOLEAN, {FALSE})

\* palette updates of one session, with a call kept for comparison
HashPalettes == { Ramp(0), [Ramp(0) EXCEPT ![16] = Deviate(@, "colour")] }

LoadClutHash == LoadClutOn(HashPalettes, ClutLoadBytes)

UpdateCurrentClutHash ==
    UpdateCurrentClutOn({"GE_CMODE_16BIT_ABGR4444", "GE_CMODE_32BIT_ABGR8888"},
                        {0, 16}, {TRUE}, BOOLEAN)

(***************************************************************************)
(* Native objects and the device.                                          *)
(***************************************************************************)
NULL_TEX == 0
INVALID_TEX == -1
MaxHandles == 2
Handles == 1..MaxHandles
Entries == {"e1", "e2"}
Framebuffers == {1, 2}

NoObj == [k |-> "none", id |-> 0]
TexObj(h) == IF h = NULL_TEX THEN NoObj ELSE [k |-> "tex", id |-> h]
FbObj(f) == [k |-> "fb", id |-> f]
FbCopyObj(f) == [k |-> "fbcopy", id |-> f]
ClutTexObj == [k |-> "cluttex", id |-> 0]
BackBuffer == [k |-> "backbuffer", id |-> 0]

\* FramebufferManagerDX9::GetTempFBO(TempFBO::DEPAL, ..): a scratch target the
\* render-target manager keeps apart from every guest framebuffer
GetTempFBO == [k |-> "tempfbo", id |-> 0]

TextureFormats == {"GE_TFMT_5650", "GE_TFMT_5551", "GE_TFMT_4444", "GE_TFMT_8888",
                   "GE_TFMT_CLUT4", "GE_TFMT_CLUT8", "GE_TFMT_CLUT16", "GE_TFMT_CLUT32",
                   "GE_TFMT_DXT1", "GE_TFMT_DXT3", "GE_TFMT_DXT5"}

IsClutFormat(fmt) ==
    fmt \in {"GE_TFMT_CLUT4", "GE_TFMT_CLUT8", "GE_TFMT_CLUT16", "GE_TFMT_CLUT32"}

FromD3D9Format(fmt) == "R8G8B8A8_UNORM"

ToD3D9Format(fmt) == "D3DFMT_A8R8G8B8"

getClutDestFormat(format) ==
    CASE format = "GE_CMODE_16BIT_ABGR4444" -> "D3DFMT_A4R4G4B4"
      [] format = "GE_CMODE_16BIT_ABGR5551" -> "D3DFMT_A1R5G5B5"
      [] format = "GE_CMODE_16BIT_BGR5650"  -> "D3DFMT_R5G6B5"
      [] format = "GE_CMODE_32BIT_ABGR8888" -> "D3DFMT_A8R8G8B8"
      [] OTHER -> "D3DFMT_A8R8G8B8"

GetDestFormatIgnoresClut(format, clutFormat) ==
    CASE format = "GE_TFMT_4444" -> "D3DFMT_A4R4G4B4"
      [] format = "GE_TFMT_5551" -> "D3DFMT_A1R5G5B5"
      [] format = "GE_TFMT_5650" -> "D3DFMT_R5G6B5"
      [] OTHER -> "D3DFMT_A8R8G8B8"

GetDestFormat(format, clutFormat) ==
    CASE IsClutFormat(format)    -> getClutDestFormat(clutFormat)
      [] format = "GE_TFMT_4444" -> "D3DFMT_A4R4G4B4"
      [] format = "GE_TFMT_5551" -> "D3DFMT_A1R5G5B5"
      [] format = "GE_TFMT_5650" -> "D3DFMT_R5G6B5"
      [] OTHER -> "D3DFMT_A8R8G8B8"

\* the cache-side state the operations below transform
Cur == [entries |-> entries, live |-> live,
        lastBoundTexture |-> lastBoundTexture, dev |-> dev]

Commit(S) ==
    /\ entries' = S.entries
    /\ live' = S.live
    /\ lastBoundTexture' = S.lastBoundTexture
    /\ dev' = S.dev

NoStatus == [s3d |-> FALSE, alpha |-> "STATUS_ALPHA_UNKNOWN"]

\* a native object lives while the cache holds its reference or the device
\* has it set at a texture unit
FreeHandles(S) == { h \in Handles : h \notin S.live /\ S.dev.tex0 # TexObj(h) }

ReleaseTextureKeepHandle(S, e) ==
    IF S.entries[e].tex # NULL_TEX
    THEN [S EXCEPT !.live = @ \ {S.entries[e].tex}]
    ELSE S

ReleaseTexture(S, e) ==
    IF S.entries[e].tex # NULL_TEX
    THEN [S EXCEPT !.live = @ \ {S.entries[e].tex}, !.entries[e].tex = NULL_TEX]
    ELSE S

InvalidateLastTexture(S) == [S EXCEPT !.lastBoundTexture = INVALID_TEX]

(***************************************************************************)
(* Texture build.                                                          *)
(***************************************************************************)
MaxLevels == 2
ScaleFactors == {1, 2}

NoReplacement ==
    [valid |-> FALSE, levels |-> 0, w |-> 0, h |-> 0,
     fmt |-> "R8G8B8A8_UNORM", alpha |-> "STATUS_ALPHA_UNKNOWN"]

Replacements ==
    { NoReplacement,
      [valid |-> TRUE, levels |-> 1, w |-> 256, h |-> 256,
       fmt |-> "R8G8B8A8_UNORM", alpha |-> "STATUS_ALPHA_FULL"] }

RECURSIVE Pow2(_)
Pow2(n) == IF n <= 0 THEN 1 ELSE 2 * Pow2(n - 1)

\* ReplacedTexture::GetSize(level, w, h): true, with the size of that level,
\* when the replacement holds the level
ReplGetSize(r, level) == r.valid /\ level < r.levels
ReplSize(r, level) == <<r.w \div Pow2(level), r.h \div Pow2(level)>>

\* the plans TextureCacheCommon::PrepareBuildTexture hands over (the planner
\* is pure: it reads the entry and the guest state and fills the plan)
\* A volume texture takes its slices from the guest's mip levels, so its
\* depth is bounded like the level count.  The geometry of a build and its
\* level loop do not read each other's inputs: GeometryPlans vary what the
\* geometry reads, LevelPlans what the loops read.
GeometryPlans ==
    [w : {64}, h : {32}, depth : {1, MaxLevels},
     levelsToCreate : {1}, levelsToLoad : {1},
     scaleFactor : ScaleFactors, baseLevelSrc : {0, 1}, replaced : Replacements]

LevelPlans ==
    [w : {64}, h : {32}, depth : {1, MaxLevels},
     levelsToCreate : 1..MaxLevels, levelsToLoad : 1..MaxLevels,
     scaleFactor : {1}, baseLevelSrc : {0}, replaced : Replacements]

Ev(op, level, src, off) == [op |-> op, level |-> level, src |-> src, off |-> off]

\* a level loop that goes on to the next level after a failed lock
RECURSIVE LoadLevels2DContinue(_, _, _, _)
LoadLevels2DContinue(i, levels, failAt, plan) ==
    IF i >= levels THEN <<>>
    ELSE (IF i = failAt THEN <<Ev("LockRect:failed", i, -1, 0)>>
          ELSE <<Ev("LockRect", i, -1, 0),
                 Ev("LoadTextureLevel", i, IF i = 0 THEN plan.baseLevelSrc ELSE i, 0),
                 Ev("UnlockRect", i, -1, 0)>>)
         \o LoadLevels2DContinue(i + 1, levels, failAt, plan)

\* the "regular loop": destination levels i..levels-1, the lock of level
\* failAt failing
RECURSIVE LoadLevels2D(_, _, _, _)
LoadLevels2D(i, levels, failAt, plan) ==
    IF i >= levels THEN <<>>
    ELSE IF i = failAt THEN <<Ev("LockRect:failed", i, -1, 0)>>
    ELSE <<Ev("LockRect", i, -1, 0),
           Ev("LoadTextureLevel", i, IF i = 0 THEN plan.baseLevelSrc ELSE i, 0),
           Ev("UnlockRect", i, -1, 0)>>
         \o LoadLevels2D(i + 1, levels, failAt, plan)

\* a slice loop that never advances the destination pointer
RECURSIVE LoadSlices3DNoAdvance(_, _)
LoadSlices3DNoAdvance(i, plan) ==
    IF i >= plan.depth THEN <<>>
    ELSE <<Ev("LoadTextureLevel", i, IF i = 0 THEN plan.baseLevelSrc ELSE i, 0)>>
         \o LoadSlices3DNoAdvance(i + 1, plan)

RECURSIVE LoadSlices3D(_, _)
LoadSlices3D(i, plan) ==
    IF i >= plan.depth THEN <<>>
    ELSE <<Ev("LoadTextureLevel", i, IF i = 0 THEN plan.baseLevelSrc ELSE i, i)>>
         \o LoadSlices3D(i + 1, plan)

\* the "3D loop": one box lock, the slices, one unlock
LoadVolume(failAt, plan) ==
    IF failAt = 0 THEN <<Ev("LockBox:failed", 0, -1, 0)>>
    ELSE <<Ev("LockBox", 0, -1, 0)>> \o LoadSlices3D(0, plan)
         \o <<Ev("UnlockBox", 0, -1, 0)>>

\* width, height and format the texture is created with
BuildGeometryScaleOnTop(plan, format, clutFormat) ==
    LET sz == IF ReplGetSize(plan.replaced, plan.baseLevelSrc)
              THEN ReplSize(plan.replaced, plan.baseLevelSrc)
              ELSE <<plan.w, plan.h>>
    IN  IF plan.scaleFactor > 1
        THEN [tw |-> sz[1] * plan.scaleFactor, th |-> sz[2] * plan.scaleFactor,
              dstFmt |-> "D3DFMT_A8R8G8B8"]
        ELSE [tw |-> sz[1], th |-> sz[2],
              dstFmt |-> IF ReplGetSize(plan.replaced, plan.baseLevelSrc)
                         THEN ToD3D9Format(plan.replaced.fmt)
                         ELSE GetDestFormat(format, clutFormat)]

BuildGeometryScaleKeepsFormat(plan, format, clutFormat) ==
    IF ReplGetSize(plan.replaced, plan.baseLevelSrc)
    THEN LET sz == ReplSize(plan.replaced, plan.baseLevelSrc)
         IN [tw |-> sz[1], th |-> sz[2], dstFmt |-> ToD3D9Format(plan.replaced.fmt)]
    ELSE [tw |-> plan.w * plan.scaleFactor, th |-> plan.h * plan.scaleFactor,
          dstFmt |-> GetDestFormat(format, clutFormat)]

BuildGeometry(plan, format, clutFormat) ==
    IF ReplGetSize(plan.replaced, plan.baseLevelSrc)
    THEN LET sz == ReplSize(plan.replaced, plan.baseLevelSrc)
         IN [tw |-> sz[1], th |-> sz[2], dstFmt |-> ToD3D9Format(plan.replaced.fmt)]
    ELSE IF plan.scaleFactor > 1
    THEN [tw |-> plan.w * plan.scaleFactor, th |-> plan.h * plan.scaleFactor,
          dstFmt |-> "D3DFMT_A8R8G8B8"]
    ELSE [tw |-> plan.w, th |-> plan.h, dstFmt |-> GetDestFormat(format, clutFormat)]

BuildLevelsNoClamp(plan) == plan.levelsToCreate

BuildLevels(plan) == Min(plan.levelsToCreate, plan.levelsToLoad)

\* what the device may answer to CreateTexture / CreateVolumeTexture: success
\* with an object, success without one, or failure, which leaves the out
\* parameter null or holding an object the caller still has to release
CreateOutcomes(S) ==
    { [hr |-> "OK", tex |-> h] : h \in FreeHandles(S) }
    \cup { [hr |-> "OK", tex |-> NULL_TEX], [hr |-> "FAILED", tex |-> NULL_TEX] }
    \cup { [hr |-> "FAILED", tex |-> h] : h \in FreeHandles(S) }

NoCreate == [kind |-> "none", w |-> 0, h |-> 0, levels |-> 0, depth |-> 0, fmt |-> "none"]

\* BuildTexture on entry e. `in` holds what the collaborators answer:
\* planOK/plan (PrepareBuildTexture), format (entry->format), clutFormat
\* (gstate), created (the device's answer to the create call), failAt (the
\* first level whose lock fails; beyond the last level: none).
\* Gives the new state, the device calls made and how the call ended.
UnplannableIgnored(in) == FALSE

\* PrepareBuildTexture reported failure
Unplannable(in) == ~in.planOK

BuildTexture(S, e, in) ==
    IF Unplannable(in)
    THEN [S |-> S, log |-> <<>>, end |-> "unplannable", created |-> NoCreate]
    ELSE
    LET plan == in.plan
        geo == BuildGeometry(plan, in.format, in.clutFormat)
        levels == BuildLevels(plan)
        created == IF plan.depth = 1
                   THEN [kind |-> "2D", w |-> geo.tw, h |-> geo.th, levels |-> levels,
                         depth |-> 1, fmt |-> geo.dstFmt]
                   ELSE [kind |-> "3D", w |-> geo.tw, h |-> geo.th, levels |-> 1,
                         depth |-> plan.depth, fmt |-> geo.dstFmt]
        \* texture = tex
        S1 == [S EXCEPT !.entries[e].tex = in.created.tex,
                        !.live = IF in.created.tex = NULL_TEX THEN @
                                 ELSE @ \cup {in.created.tex}]
        log == IF plan.depth = 1 THEN LoadLevels2D(0, levels, in.failAt, plan)
               ELSE LoadVolume(in.failAt, plan)
        lockFailed == \E k \in 1..Len(log) :
                         log[k].op \in {"LockRect:failed", "LockBox:failed"}
        S3 == IF plan.depth > 1 THEN [S1 EXCEPT !.entries[e].status.s3d = TRUE]
              ELSE S1
        S4 == IF plan.replaced.valid
              THEN [S3 EXCEPT !.entries[e].status.alpha = plan.replaced.alpha]
              ELSE S3
    IN  IF in.created.hr = "FAILED"
        THEN [S |-> ReleaseTexture(S1, e), log |-> <<>>, end |-> "create-failed",
              created |-> created]
        ELSE IF in.created.tex = NULL_TEX
        THEN [S |-> S1, log |-> <<>>, end |-> "no-texture", created |-> created]
        ELSE IF lockFailed
        THEN [S |-> S1, log |-> log, end |-> "lock-failed", created |-> created]
        ELSE [S |-> S4, log |-> log, end |-> "done", created |-> created]

(***************************************************************************)
(* Initial state: the cache as the constructor leaves it.                  *)
(***************************************************************************)
NoBuffer == [allocated |-> FALSE, w |-> 0, h |-> 0, fmt |-> "none", data |-> NoObj]

DefaultSampler ==
    [minFilter |-> "D3DTEXF_POINT", mipFilter |-> "D3DTEXF_POINT",
     magFilter |-> "D3DTEXF_POINT", maxMipLevel |-> 0, mipLodBias |-> 0,
     addressU |-> "D3DTADDRESS_WRAP", addressV |-> "D3DTADDRESS_WRAP"]

InitState ==
    /\ clutBuf_ = [k \in 1..16 |-> 0]
    /\ clutTotalBytes_ = 0
    /\ clutMaxBytes_ = 0
    /\ clutHash_ = [alg |-> "none", len |-> 0, data |-> <<>>]
    /\ clutAlphaLinear_ = FALSE
    /\ clutAlphaLinearColor_ = 0
    /\ entries = [e \in Entries |-> [tex |-> NULL_TEX, status |-> NoStatus]]
    /\ live = {}
    /\ lastBoundTexture = INVALID_TEX
    /\ dev = [tex0 |-> NoObj, tex1 |-> NoObj, rt |-> BackBuffer, curFb |-> 0,
              samp |-> DefaultSampler, maxAnisotropy |-> 1,
              textureFullAlpha |-> FALSE]
    /\ clearCacheNextFrame_ = FALSE
    /\ buffer = NoBuffer
    /\ timesInvalidatedAllThisFrame_ = 0
    /\ texelsScaledThisFrame_ = 0
    /\ replacementTimeThisFrame_ = 0

Init ==
    /\ InitState
    /\ call = [op |-> "init"]

(***************************************************************************)
(* Actions of the texture build.                                           *)
(***************************************************************************)
DoBuildTexture(e, in) ==
    LET r == BuildTexture(Cur, e, in)
    IN  /\ Commit(r.S)
        /\ call' = [op |-> "BuildTexture", e |-> e, planOK |-> in.planOK,
                    plan |-> in.plan, format |-> in.format,
                    clutFormat |-> in.clutFormat, hr |-> in.created.hr,
                    out |-> in.created.tex, failAt |-> in.failAt,
                    end |-> r.end, created |-> r.created, log |-> r.log]
        /\ UNCHANGED <<clearCacheNextFrame_, buffer>>
        /\ UNCHANGED clutVars
        /\ UNCHANGED frameVars

DefaultPlan ==
    [w |-> 64, h |-> 32, depth |-> 1, levelsToCreate |-> 1, levelsToLoad |-> 1,
     scaleFactor |-> 1, baseLevelSrc |-> 0, replaced |-> NoReplacement]

\* entry->format with gstate.getClutPaletteFormat()
BuildFormats ==
    { <<"GE_TFMT_5650", "GE_CMODE_32BIT_ABGR8888">>,
      <<"GE_TFMT_CLUT4", "GE_CMODE_16BIT_ABGR4444">> }

\* BuildTexture on an entry of E with the plan drawn from PlanSet and the
\* guest formats from FmtSet, under every answer of the device; answers the
\* call never asks for stay at a fixed value
BuildTextureOn(E, PlanSet, FmtSet) ==
    \E e \in E :
        \/ DoBuildTexture(e, [planOK |-> FALSE, plan |-> DefaultPlan,
                              format |-> "GE_TFMT_8888",
                              clutFormat |-> "GE_CMODE_32BIT_ABGR8888",
                              created |-> [hr |-> "FAILED", tex |-> NULL_TEX],
                              failAt |-> 0])
        \/ \E plan \in PlanSet, f \in FmtSet, created \in CreateOutcomes(Cur) :
             \E failAt \in 0..(IF created.hr = "FAILED" \/ created.tex = NULL_TEX THEN 0
                                ELSE IF plan.depth = 1 THEN BuildLevels(plan) ELSE 1) :
                DoBuildTexture(e, [planOK |-> TRUE, plan |-> plan, format |-> f[1],
                                   clutFormat |-> f[2], created |-> created,
                                   failAt |-> failAt])

BuildTextureGeometry == BuildTextureOn({"e1"}, GeometryPlans, BuildFormats)

BuildTextureLevels ==
    BuildTextureOn({"e1"}, LevelPlans, {<<"GE_TFMT_5650", "GE_CMODE_32BIT_ABGR8888">>})

DoReleaseTexture ==
    \E e \in Entries :
        /\ Commit(ReleaseTexture(Cur, e))
        /\ call' = [op |-> "ReleaseTexture", e |-> e]
        /\ UNCHANGED <<clearCacheNextFrame_, buffer>>
        /\ UNCHANGED clutVars
        /\ UNCHANGED frameVars

(***************************************************************************)
(* Sampler state, binding, per-frame housekeeping.                         *)
(***************************************************************************)
\* the LOD bias -100.0f, in the 1/256 units of key.lodBias
ForceTopMipLodBias == -25600

\* C integer division (truncating)
TruncDiv(a, b) == IF a >= 0 THEN a \div b ELSE -((-a) \div b)

\* the keys GetSamplingParams / GetFramebufferSamplingParams hand over
SamplerKeys ==
    { [minFilt |-> FALSE, mipFilt |-> FALSE, magFilt |-> FALSE, mipEnable |-> FALSE,
       lodBias |-> 128, minLevel |-> 256, sClamp |-> FALSE, tClamp |-> TRUE],
      [minFilt |-> TRUE, mipFilt |-> TRUE, magFilt |-> TRUE, mipEnable |-> TRUE,
       lodBias |-> 128, minLevel |-> 256, sClamp |-> TRUE, tClamp |-> FALSE] }

ApplySamplingParamsKeepsMips(S, key) ==
    [S EXCEPT !.dev.samp =
        [minFilter |-> IF key.minFilt THEN "D3DTEXF_LINEAR" ELSE "D3DTEXF_POINT",
         mipFilter |-> IF key.mipFilt THEN "D3DTEXF_LINEAR" ELSE "D3DTEXF_POINT",
         magFilter |-> IF key.magFilt THEN "D3DTEXF_LINEAR" ELSE "D3DTEXF_POINT",
         maxMipLevel |-> TruncDiv(key.minLevel, 256),
         mipLodBias |-> key.lodBias,
         addressU |-> IF key.sClamp THEN "D3DTADDRESS_CLAMP" ELSE "D3DTADDRESS_WRAP",
         addressV |-> IF key.tClamp THEN "D3DTADDRESS_CLAMP" ELSE "D3DTADDRESS_WRAP"]]

ApplySamplingParams(S, key) ==
    [S EXCEPT !.dev.samp =
        [minFilter |-> IF key.minFilt THEN "D3DTEXF_LINEAR" ELSE "D3DTEXF_POINT",
         mipFilter |-> IF key.mipFilt THEN "D3DTEXF_LINEAR" ELSE "D3DTEXF_POINT",
         magFilter |-> IF key.magFilt THEN "D3DTEXF_LINEAR" ELSE "D3DTEXF_POINT",
         maxMipLevel |-> IF ~key.mipEnable THEN 0 ELSE TruncDiv(key.minLevel, 256),
         mipLodBias |-> IF ~key.mipEnable THEN ForceTopMipLodBias ELSE key.lodBias,
         addressU |-> IF key.sClamp THEN "D3DTADDRESS_CLAMP" ELSE "D3DTADDRESS_WRAP",
         addressV |-> IF key.tClamp THEN "D3DTADDRESS_CLAMP" ELSE "D3DTADDRESS_WRAP"]]

BindTexture(S, e, key) ==
    LET texture == S.entries[e].tex
        S1 == IF texture # S.lastBoundTexture
              THEN [S EXCEPT !.dev.tex0 = TexObj(texture), !.lastBoundTexture = texture]
              ELSE S
    IN ApplySamplingParams(S1, key)

Unbind(S) == InvalidateLastTexture([S EXCEPT !.dev.tex0 = NoObj])

\* TextureCacheCommon::Clear(true): every entry released and removed
RECURSIVE Evict(_, _)
Evict(S, D) ==
    IF D = {} THEN S
    ELSE LET e == CHOOSE x \in D : TRUE
         IN Evict([ReleaseTexture(S, e) EXCEPT !.entries[e].status = NoStatus], D \ {e})

Clear(S) == Evict(S, Entries)

\* TextureCacheCommon::Decimate(): the entries in D have not been used for
\* too long and are evicted
Decimate(S, D) == Evict(S, D)

maxAnisotropyLevel == 16

\* StartFrame with a clear pending (clearReq) or not; gives the state and
\* how often Clear and Decimate were invoked
StartFrameAlwaysDecimate(S, clearReq, D, aniso) ==
    LET S1 == InvalidateLastTexture(S)
        S2 == IF clearReq THEN Decimate(Clear(S1), D) ELSE Decimate(S1, D)
    IN [S |-> S2, clearCalls |-> IF clearReq THEN 1 ELSE 0, decimateCalls |-> 1]

StartFrameKeepsLastBound(S, clearReq, D, aniso) ==
    LET S2 == IF clearReq
              THEN [Clear(S) EXCEPT !.lastBoundTexture = S.lastBoundTexture]
              ELSE [Decimate(S, D) EXCEPT !.lastBoundTexture = S.lastBoundTexture]
    IN [S |-> S2, clearCalls |-> IF clearReq THEN 1 ELSE 0,
        decimateCalls |-> IF clearReq THEN 0 ELSE 1]

StartFrame(S, clearReq, D, aniso) ==
    LET S1 == InvalidateLastTexture(S)
        S2 == IF clearReq THEN Clear(S1) ELSE Decimate(S1, D)
        level == IF Pow2(aniso.iAnisotropyLevel) > maxAnisotropyLevel
                 THEN maxAnisotropyLevel ELSE Pow2(aniso.iAnisotropyLevel)
        S3 == IF aniso.supported THEN [S2 EXCEPT !.dev.maxAnisotropy = level] ELSE S2
    IN [S |-> S3, clearCalls |-> IF clearReq THEN 1 ELSE 0,
        decimateCalls |-> IF clearReq THEN 0 ELSE 1]

StartFrameWith(Evictions, Supports) ==
    \E D \in Evictions, supported \in Supports, lvl \in {0, 5} :
        LET r == StartFrame(Cur, clearCacheNextFrame_, D,
                            [supported |-> supported, iAnisotropyLevel |-> lvl])
        IN  /\ (clearCacheNextFrame_ => D = {})
            /\ (~supported => lvl = 0)
            /\ Commit(r.S)
            /\ clearCacheNextFrame_' = FALSE
            /\ call' = [op |-> "StartFrame", clearRequested |-> clearCacheNextFrame_,
                        clearCalls |-> r.clearCalls, decimateCalls |-> r.decimateCalls]
            /\ timesInvalidatedAllThisFrame_' = 0
            /\ replacementTimeThisFrame_' = 0
            /\ texelsScaledThisFrame_' = 0
            /\ UNCHANGED buffer
            /\ UNCHANGED clutVars

DoStartFrame == StartFrameWith(SUBSET Entries, BOOLEAN)

\* TextureCacheCommon::ClearNextFrame()
ClearNextFrame ==
    /\ clearCacheNextFrame_' = TRUE
    /\ call' = [op |-> "ClearNextFrame"]
    /\ UNCHANGED <<entries, live, lastBoundTexture, dev, buffer>>
    /\ UNCHANGED clutVars
    /\ UNCHANGED frameVars

BindTextureOn(E, Keys) ==
    \E e \in E, key \in Keys :
        /\ Commit(BindTexture(Cur, e, key))
        /\ call' = [op |-> "BindTexture", e |-> e, key |-> key,
                    setTexture |-> entries[e].tex # lastBoundTexture]
        /\ UNCHANGED <<clearCacheNextFrame_, buffer>>
        /\ UNCHANGED clutVars
        /\ UNCHANGED frameVars

DoBindTexture == BindTextureOn(Entries, SamplerKeys)

DoUnbind ==
    /\ Commit(Unbind(Cur))
    /\ call' = [op |-> "Unbind"]
    /\ UNCHANGED <<clearCacheNextFrame_, buffer>>
    /\ UNCHANGED clutVars
    /\ UNCHANGED frameVars

DoInvalidateLastTexture ==
    /\ Commit(InvalidateLastTexture(Cur))
    /\ call' = [op |-> "InvalidateLastTexture"]
    /\ UNCHANGED <<clearCacheNextFrame_, buffer>>
    /\ UNCHANGED clutVars
    /\ UNCHANGED frameVars

\* builds as the draw path issues them: a plain and a volume texture
DrawPlans == { DefaultPlan, [DefaultPlan EXCEPT !.depth = 2] }

BuildTextureDraw ==
    BuildTextureOn(Entries, DrawPlans, {<<"GE_TFMT_8888", "GE_CMODE_32BIT_ABGR8888">>})

(***************************************************************************)
(* Texturing from a framebuffer.                                           *)
(***************************************************************************)
\* one call on the device or on a collaborator; obj is the object it binds
Dc(op, unit, obj, flags) == [op |-> op, unit |-> unit, obj |-> obj, flags |-> flags]

\* the device after one call: render target and texture units 0 and 1
DeviceAfter(d, c) ==
    IF c.op = "BindFramebufferAsRenderTarget" THEN [d EXCEPT !.rt = c.obj]
    ELSE IF c.op = "RebindFramebuffer"
         THEN [d EXCEPT !.rt = IF d.curFb = 0 THEN BackBuffer ELSE FbObj(d.curFb)]
    ELSE IF c.op \in {"SetTexture", "BindFramebufferAsTexture",
                      "BindFramebufferAsColorTexture"}
         THEN IF c.unit = 0 THEN [d EXCEPT !.tex0 = c.obj] ELSE [d EXCEPT !.tex1 = c.obj]
    ELSE d

\* runs the calls in order; each logged call carries the device state it left
RECURSIVE RunCalls(_, _, _)
RunCalls(d, cs, log) ==
    IF cs = <<>> THEN [dev |-> d, log |-> log]
    ELSE LET d1 == DeviceAfter(d, Head(cs))
         IN RunCalls(d1, Tail(cs),
                     Append(log, [op |-> Head(cs).op, unit |-> Head(cs).unit,
                                  obj |-> Head(cs).obj, flags |-> Head(cs).flags,
                                  rt |-> d1.rt, tex0 |-> d1.tex0, tex1 |-> d1.tex1]))

\* the depalettization shader provider hands out a program for every
\* palette mode
GetDepalettizePixelShader(clutMode, drawnFormat) == "pshader"

NeedsDepalAlways(texFormat, bDisableSlowFramebufEffects) ==
    ~bDisableSlowFramebufEffects

\* whether ApplyTextureFramebuffer obtains a depalettization shader
NeedsDepal(texFormat, bDisableSlowFramebufEffects) ==
    /\ IsClutFormat(texFormat)
    /\ ~bDisableSlowFramebufEffects
    /\ GetDepalettizePixelShader("clutMode", "drawnFormat") # "null"

DepalPassIntoSource(fb, boundsKnown) ==
    <<Dc("BindFramebufferAsRenderTarget", 0, FbObj(fb), "none"),
      Dc("SetTexture", 1, ClutTexObj, "none"),
      Dc("BindFramebufferAsColorTexture", 0, FbObj(fb), "SKIP_COPY|FORCE_SELF"),
      Dc("DrawPrimitiveUP", 0, NoObj, "none"),
      Dc("BindFramebufferAsTexture", 0, FbObj(fb), "none")>>

\* the palette-resolve pass, as the sequence of calls it makes
DepalPass(fb, boundsKnown) ==
    <<Dc("GetClutTexture", 0, ClutTexObj, "none"),
      Dc("GetTempFBO", 0, GetTempFBO, "TempFBO::DEPAL"),
      Dc("BindFramebufferAsRenderTarget", 0, GetTempFBO, "none"),
      Dc("DirtyLastShader", 0, NoObj, "none")>>
    \o (IF boundsKnown
        THEN <<Dc("Dirty", 0, NoObj, "DIRTY_TEXTURE_PARAMS")>> ELSE <<>>)
    \o <<Dc("Use", 0, NoObj, "none"),
         Dc("SetTexture", 1, ClutTexObj, "none"),
         Dc("BindFramebufferAsColorTexture", 0, FbObj(fb), "SKIP_COPY|FORCE_SELF"),
         Dc("DrawPrimitiveUP", 0, NoObj, "none"),
         Dc("Restore", 0, NoObj, "none"),
         Dc("BindFramebufferAsTexture", 0, GetTempFBO, "none")>>

\* the framebuffer manager binds a copy when the framebuffer is the one
\* being rendered to
DirectBind(d, fb) ==
    <<Dc("BindFramebufferAsColorTexture", 0,
         IF fb = d.curFb THEN FbCopyObj(fb) ELSE FbObj(fb),
         "MAY_COPY_WITH_UV|APPLY_TEX_OFFSET")>>

\* all mask bits set in each of the first w pixels
CheckAlpha16(pixels, w, mask) ==
    IF \A i \in 1..Min(w, Len(pixels)) : BitAnd(pixels[i], mask) = mask
    THEN "CHECKALPHA_FULL" ELSE "CHECKALPHA_ANY"

\* 32-bit pixels over the 16-bit words of the buffer; maskHi is the mask's
\* high word, tested on the pixel's high word
CheckAlpha32(pixels, w, maskHi) ==
    IF \A i \in 1..Min(w, Len(pixels) \div 2) : BitAnd(pixels[2 * i], maskHi) = maskHi
    THEN "CHECKALPHA_FULL" ELSE "CHECKALPHA_ANY"

CheckAlphaScans5650(pixels, dstFmt, w) ==
    IF dstFmt = "D3DFMT_A4R4G4B4" THEN CheckAlpha16(pixels, w, 61440)
    ELSE IF dstFmt \in {"D3DFMT_A1R5G5B5", "D3DFMT_R5G6B5"}
    THEN CheckAlpha16(pixels, w, 32768)
    ELSE CheckAlpha32(pixels, w, 65280)

CheckAlpha(pixels, dstFmt, w) ==
    IF dstFmt = "D3DFMT_A4R4G4B4" THEN CheckAlpha16(pixels, w, 61440)
    ELSE IF dstFmt = "D3DFMT_A1R5G5B5" THEN CheckAlpha16(pixels, w, 32768)
    ELSE IF dstFmt = "D3DFMT_R5G6B5" THEN "CHECKALPHA_FULL"
    ELSE CheckAlpha32(pixels, w, 65280)

FramebufferFullAlphaGuestFormat(depal, in, clut, clutMaxBytes) ==
    in.texFormat = "GE_TFMT_5650"

\* the value handed to gstate_c.SetTextureFullAlpha on either path
FramebufferFullAlpha(depal, in, clut, clutMaxBytes) ==
    LET bytesPerColor == IF in.clutFormat = "GE_CMODE_32BIT_ABGR8888" THEN 4 ELSE 2
        clutTotalColors == clutMaxBytes \div bytesPerColor
    IN  IF depal
        THEN CheckAlpha(clut, getClutDestFormat(in.clutFormat), clutTotalColors)
                 = "CHECKALPHA_FULL"
        ELSE in.texFormat = "GE_TFMT_5650"

\* in is the GE state of the draw: texFormat, clutFormat, the framebuffer,
\* the config flag, whether the vertex bounds are known, the sampler key
ApplyTextureFramebuffer(S, in, clut, clutMaxBytes) ==
    LET depal  == NeedsDepal(in.texFormat, in.bDisableSlowFramebufEffects)
        cs     == (IF depal THEN DepalPass(in.fb, in.boundsKnown)
                   ELSE DirectBind(S.dev, in.fb))
                  \o <<Dc("RebindFramebuffer", 0, NoObj, "none")>>
        r      == RunCalls(S.dev, cs, <<>>)
        fullAlpha == FramebufferFullAlpha(depal, in, clut, clutMaxBytes)
        S1     == [S EXCEPT !.dev = [r.dev EXCEPT !.textureFullAlpha = fullAlpha]]
        S2     == ApplySamplingParams(S1, in.key)
    IN [S |-> S2, log |-> r.log]

FramebufferDraws ==
    [texFormat : {"GE_TFMT_5650", "GE_TFMT_8888", "GE_TFMT_CLUT8"},
     clutFormat : {"GE_CMODE_16BIT_ABGR4444"},
     fb : Framebuffers,
     bDisableSlowFramebufEffects : BOOLEAN,
     boundsKnown : BOOLEAN,
     key : SamplerKeys]

ApplyTextureFramebufferOn(Draws) ==
    \E in \in Draws :
        LET r == ApplyTextureFramebuffer(Cur, in, clutBuf_, clutMaxBytes_)
        IN  /\ Commit(r.S)
            /\ call' = [op |-> "ApplyTextureFramebuffer", in |-> in, log |-> r.log]
            /\ UNCHANGED <<clearCacheNextFrame_, buffer>>
            /\ UNCHANGED clutVars
            /\ UNCHANGED frameVars

DoApplyTextureFramebuffer == ApplyTextureFramebufferOn(FramebufferDraws)

\* the framebuffer manager makes fb (0: the back buffer) the render target
SetRenderFrameBuffer ==
    \E fb \in {0} \cup Framebuffers :
        /\ dev' = [dev EXCEPT !.curFb = fb,
                              !.rt = IF fb = 0 THEN BackBuffer ELSE FbObj(fb)]
        /\ call' = [op |-> "SetRenderFrameBuffer", fb |-> fb]
        /\ UNCHANGED <<entries, live, lastBoundTexture, clearCacheNextFrame_, buffer>>
        /\ UNCHANGED clutVars
        /\ UNCHANGED frameVars

(***************************************************************************)
(* Debug read-back of the current texture.                                 *)
(***************************************************************************)
NoBuild ==
    [planOK |-> FALSE, plan |-> DefaultPlan, format |-> "GE_TFMT_8888",
     clutFormat |-> "GE_CMODE_32BIT_ABGR8888",
     created |-> [hr |-> "FAILED", tex |-> NULL_TEX], failAt |-> 0]

NoFramebufferDraw ==
    [texFormat |-> "GE_TFMT_8888", clutFormat |-> "GE_CMODE_16BIT_ABGR4444", fb |-> 1,
     bDisableSlowFramebufEffects |-> FALSE, boundsKnown |-> FALSE,
     key |-> CHOOSE k \in SamplerKeys : ~k.mipEnable]

\* SetTexture() then ApplyTexture(): the per-draw flow. a says what the
\* lookup found: a framebuffer to texture from, or entry a.e, which is built
\* first when it has no native texture, and then bound
SetTextureApplyTexture(S, a, clut, clutMaxBytes) ==
    IF a.kind = "framebuffer"
    THEN ApplyTextureFramebuffer(S, a.fbin, clut, clutMaxBytes).S
    ELSE LET S1 == IF S.entries[a.e].tex = NULL_TEX
                   THEN BuildTexture(S, a.e, a.build).S
                   ELSE S
         IN BindTexture(S1, a.e, a.key)

\* the builds the lookup can ask for on entry e in state S; the device hands
\* out the lowest free handle
DrawBuilds(S, e) ==
    IF S.entries[e].tex # NULL_TEX THEN {NoBuild}
    ELSE {NoBuild} \cup
         { [NoBuild EXCEPT !.planOK = TRUE, !.created = c, !.failAt = 1] :
             c \in { x \in CreateOutcomes(S) :
                       /\ x.hr = "FAILED" => x.tex = NULL_TEX
                       /\ x.hr = "OK" => /\ x.tex # NULL_TEX
                                         /\ \A h \in FreeHandles(S) : x.tex <= h } }

\* what the lookup can find in state S, among the entries E
DrawStates(S, E) ==
    UNION { { [kind |-> "texture", e |-> e, build |-> b, key |-> NoFramebufferDraw.key,
               fbin |-> NoFramebufferDraw] : b \in DrawBuilds(S, e) } : e \in E }
    \cup
    { [kind |-> "framebuffer", e |-> "e1", build |-> NoBuild, key |-> NoFramebufferDraw.key,
       fbin |-> [NoFramebufferDraw EXCEPT !.texFormat = f]] :
        f \in {"GE_TFMT_8888", "GE_TFMT_CLUT8"} }

\* the debug buffer format and pixel size for a surface format
DebugFormat(format, bgraTexture) ==
    IF format = "D3DFMT_A1R5G5B5"
    THEN [fmt |-> IF bgraTexture THEN "GPU_DBG_FORMAT_5551" ELSE "GPU_DBG_FORMAT_5551_BGRA",
          pixelSize |-> 2]
    ELSE IF format = "D3DFMT_A4R4G4B4"
    THEN [fmt |-> IF bgraTexture THEN "GPU_DBG_FORMAT_4444" ELSE "GPU_DBG_FORMAT_4444_BGRA",
          pixelSize |-> 2]
    ELSE IF format = "D3DFMT_R5G6B5"
    THEN [fmt |-> IF bgraTexture THEN "GPU_DBG_FORMAT_565" ELSE "GPU_DBG_FORMAT_565_BGRA",
          pixelSize |-> 2]
    ELSE IF format = "D3DFMT_A8R8G8B8"
    THEN [fmt |-> IF bgraTexture THEN "GPU_DBG_FORMAT_8888" ELSE "GPU_DBG_FORMAT_8888_BGRA",
          pixelSize |-> 4]
    ELSE [fmt |-> "GPU_DBG_FORMAT_INVALID", pixelSize |-> 1]

\* the device's answers to the calls of one read-back
Ans(g, q, l, s, c, r, o, format, bgra) ==
    [getTexture |-> g, queryInterface |-> q, lockRect |-> l, getSurfaceLevel |-> s,
     createOffscreen |-> c, getRenderTargetData |-> r, offscreenLock |-> o,
     format |-> format, bgraTexture |-> bgra, pitch |-> 128, height |-> 32]

ReadbackAnswers ==
    { Ans(FALSE, TRUE, TRUE, TRUE, TRUE, TRUE, TRUE, "D3DFMT_A8R8G8B8", TRUE),
      Ans(TRUE, FALSE, TRUE, TRUE, TRUE, TRUE, TRUE, "D3DFMT_A8R8G8B8", TRUE),
      Ans(TRUE, TRUE, TRUE, TRUE, TRUE, TRUE, TRUE, "D3DFMT_A8R8G8B8", TRUE),
      Ans(TRUE, TRUE, TRUE, TRUE, TRUE, TRUE, TRUE, "D3DFMT_R5G6B5", FALSE),
      Ans(TRUE, TRUE, TRUE, TRUE, TRUE, TRUE, TRUE, "D3DFMT_DXT1", TRUE),
      Ans(TRUE, TRUE, FALSE, FALSE, TRUE, TRUE, TRUE, "D3DFMT_A8R8G8B8", TRUE),
      Ans(TRUE, TRUE, FALSE, TRUE, FALSE, TRUE, TRUE, "D3DFMT_A8R8G8B8", TRUE),
      Ans(TRUE, TRUE, FALSE, TRUE, TRUE, FALSE, TRUE, "D3DFMT_A8R8G8B8", TRUE),
      Ans(TRUE, TRUE, FALSE, TRUE, TRUE, TRUE, FALSE, "D3DFMT_A8R8G8B8", TRUE),
      Ans(TRUE, TRUE, FALSE, TRUE, TRUE, TRUE, TRUE, "D3DFMT_A8R8G8B8", TRUE),
      Ans(TRUE, TRUE, FALSE, TRUE, TRUE, TRUE, TRUE, "D3DFMT_DXT1", TRUE) }

ReadbackAllocateFirst(d, buf, level, ans) ==
    LET ok == ans.getTexture /\ d.tex0 # NoObj /\ ans.queryInterface /\ ans.lockRect
        f  == DebugFormat(ans.format, ans.bgraTexture)
    IN [success |-> ok /\ f.fmt # "GPU_DBG_FORMAT_INVALID",
        buffer |-> IF ok THEN [allocated |-> TRUE, w |-> ans.pitch \div f.pixelSize,
                               h |-> ans.height, fmt |-> f.fmt, data |-> d.tex0]
                   ELSE buf,
        res |-> <<>>]

\* the read-back proper: the texture at unit 0 is locked, through an
\* offscreen copy when it is a render target, and copied to the buffer; res
\* lists the references and locks taken and given back
Readback(d, buf, level, ans) ==
    LET baseTex      == d.tex0
        f            == DebugFormat(ans.format, ans.bgraTexture)
        gotSurface   == ~ans.lockRect /\ ans.getSurfaceLevel
        gotOffscreen == gotSurface /\ ans.createOffscreen
        copied       == gotOffscreen /\ ans.getRenderTargetData
        hrOK         == IF ans.lockRect THEN TRUE ELSE copied /\ ans.offscreenLock
        valid        == f.fmt # "GPU_DBG_FORMAT_INVALID"
        res ==
            <<"GetTexture:baseTex", "QueryInterface:tex">>
            \o (IF ans.lockRect THEN <<"LockRect:tex">> ELSE <<>>)
            \o (IF gotSurface THEN <<"GetSurfaceLevel:renderTarget">> ELSE <<>>)
            \o (IF gotOffscreen THEN <<"CreateOffscreenPlainSurface:offscreen">> ELSE <<>>)
            \o (IF copied /\ ans.offscreenLock THEN <<"LockRect:offscreen">> ELSE <<>>)
            \o (IF gotSurface THEN <<"Release:renderTarget">> ELSE <<>>)
            \o (IF hrOK /\ gotOffscreen
                THEN <<"UnlockRect:offscreen", "Release:offscreen">>
                ELSE IF hrOK THEN <<"UnlockRect:tex">> ELSE <<>>)
            \o <<"Release:tex", "Release:baseTex">>
    IN  IF ~(ans.getTexture /\ baseTex # NoObj)
        THEN [success |-> FALSE, buffer |-> buf, res |-> <<>>]
        ELSE IF ~ans.queryInterface
        THEN [success |-> FALSE, buffer |-> buf,
              res |-> <<"GetTexture:baseTex", "Release:baseTex">>]
        ELSE [success |-> hrOK /\ valid,
              buffer |-> IF hrOK /\ valid
                         THEN [allocated |-> TRUE, w |-> ans.pitch \div f.pixelSize,
                               h |-> ans.height, fmt |-> f.fmt, data |-> baseTex]
                         ELSE buf,
              res |-> res]

GetCurrentTextureDebug(S, buf, level, a, ans, clut, clutMaxBytes) ==
    LET S1 == SetTextureApplyTexture(S, a, clut, clutMaxBytes)
        r  == Readback(S1.dev, buf, level, ans)
    IN [S |-> S1, success |-> r.success, buffer |-> r.buffer, res |-> r.res]

GetCurrentTextureDebugOn(E, Answers) ==
    \E a \in DrawStates(Cur, E), ans \in Answers :
        LET r == GetCurrentTextureDebug(Cur, buffer, 0, a, ans, clutBuf_, clutMaxBytes_)
        IN  /\ Commit(r.S)
            /\ buffer' = r.buffer
            /\ call' = [op |-> "GetCurrentTextureDebug", apply |-> a, ans |-> ans,
                        success |-> r.success, res |-> r.res]
            /\ UNCHANGED clearCacheNextFrame_
            /\ UNCHANGED clutVars
            /\ UNCHANGED frameVars

DoGetCurrentTextureDebug == GetCurrentTextureDebugOn({"e1"}, ReadbackAnswers)

(***************************************************************************)
(* The operations that touch the binding at unit 0, on one entry.          *)
(***************************************************************************)
BindKeys == { NoFramebufferDraw.key }

BindDraws ==
    { [NoFramebufferDraw EXCEPT !.texFormat = f] : f \in {"GE_TFMT_8888", "GE_TFMT_CLUT8"} }

BindAnswers ==
    { Ans(TRUE, TRUE, TRUE, TRUE, TRUE, TRUE, TRUE, "D3DFMT_A8R8G8B8", TRUE),
      Ans(TRUE, TRUE, FALSE, FALSE, TRUE, TRUE, TRUE, "D3DFMT_A8R8G8B8", TRUE) }

BindTextureOne == BindTextureOn({"e1"}, BindKeys)

StartFrameOne == StartFrameWith({{}, {"e1"}}, {FALSE})

BuildTextureOne ==
    BuildTextureOn({"e1"}, {DefaultPlan}, {<<"GE_TFMT_8888", "GE_CMODE_32BIT_ABGR8888">>})

ApplyTextureFramebufferOne == ApplyTextureFramebufferOn(BindDraws)

GetCurrentTextureDebugOne == GetCurrentTextureDebugOn({"e1"}, BindAnswers)

\* framebuffer draws over uploaded palettes: every entry opaque in every
\* format, opaque in 5551 only, one clear entry in the second half
AlphaPalettes ==
    { [k \in 1..16 |-> 65535],
      [k \in 1..16 |-> 36863],
      [k \in 1..16 |-> IF k = 12 THEN 4095 ELSE 65535] }

AlphaDraws ==
    { [NoFramebufferDraw EXCEPT !.texFormat = f, !.clutFormat = c,
                                !.bDisableSlowFramebufEffects = b] :
        f \in {"GE_TFMT_5650", "GE_TFMT_8888", "GE_TFMT_CLUT8"},
        c \in PaletteFormats, b \in BOOLEAN }

LoadClutAlpha == LoadClutOn(AlphaPalettes, ClutLoadBytes)

ApplyTextureFramebufferAlpha == ApplyTextureFramebufferOn(AlphaDraws)

(***************************************************************************)
(* The format functions, applied to arguments drawn at the start.          *)
(***************************************************************************)
\* the values of the 4-bit texture format field: the named formats and the
\* values without a name
TextureFormatValues == TextureFormats \cup {"GE_TFMT_OTHER"}

DestFormats == {"D3DFMT_A4R4G4B4", "D3DFMT_A1R5G5B5", "D3DFMT_R5G6B5", "D3DFMT_A8R8G8B8"}

\* 16-bit words with no alpha bit, the 5551 alpha bit, the 4444 alpha nibble,
\* and the top byte set
AlphaWords == {4095, 32768, 61440, 65280}

AlphaPixels == [1..4 -> AlphaWords]

FormatArgs ==
    { [op |-> "args", fn |-> "GetDestFormat", format |-> f, clutFormat |-> c] :
        f \in TextureFormatValues, c \in PaletteFormats }

AlphaArgs ==
    { [op |-> "args", fn |-> "CheckAlpha", pixels |-> p, dstFmt |-> d, w |-> w] :
        p \in AlphaPixels, d \in DestFormats, w \in 0..2 }

InitFormats ==
    /\ InitState
    /\ call \in FormatArgs \cup AlphaArgs

DoGetDestFormat ==
    /\ call.op = "args" /\ call.fn = "GetDestFormat"
    /\ call' = [op |-> "GetDestFormat", format |-> call.format,
                clutFormat |-> call.clutFormat,
                result |-> GetDestFormat(call.format, call.clutFormat)]
    /\ UNCHANGED cacheVars
    /\ UNCHANGED clutVars

DoCheckAlpha ==
    /\ call.op = "args" /\ call.fn = "CheckAlpha"
    /\ call' = [op |-> "CheckAlpha", pixels |-> call.pixels, dstFmt |-> call.dstFmt,
                w |-> call.w, result |-> CheckAlpha(call.pixels, call.dstFmt, call.w)]
    /\ UNCHANGED cacheVars
    /\ UNCHANGED clutVars

(***************************************************************************)
(* Sampler state for every key.                                            *)
(***************************************************************************)
\* SamplerCacheKey values: the flags, a signed LOD bias and a minimum level,
\* both in 1/256 steps
SamplerKeyValues ==
    [minFilt : BOOLEAN, mipFilt : BOOLEAN, magFilt : BOOLEAN, mipEnable : BOOLEAN,
     lodBias : {-256, 0, 128}, minLevel : {0, 256, 700},
     sClamp : BOOLEAN, tClamp : BOOLEAN]

DoApplySamplingParams ==
    \E key \in SamplerKeyValues :
        /\ Commit(ApplySamplingParams(Cur, key))
        /\ call' = [op |-> "ApplySamplingParams", key |-> key]
        /\ UNCHANGED <<clearCacheNextFrame_, buffer>>
        /\ UNCHANGED clutVars
        /\ UNCHANGED frameVars

(***************************************************************************)
(* Work counted per frame.                                                 *)
(***************************************************************************)
MaxCount == 1

\* TextureCacheCommon::InvalidateAll counts the full invalidations
InvalidateAll ==
    /\ timesInvalidatedAllThisFrame_ < MaxCount
    /\ timesInvalidatedAllThisFrame_' = timesInvalidatedAllThisFrame_ + 1
    /\ call' = [op |-> "InvalidateAll"]
    /\ UNCHANGED <<entries, live, lastBoundTexture, dev, clearCacheNextFrame_, buffer,
                   texelsScaledThisFrame_, replacementTimeThisFrame_>>
    /\ UNCHANGED clutVars

\* the pixel loader counts the texels it upscales
CountScaledTexels ==
    /\ texelsScaledThisFrame_ < MaxCount
    /\ texelsScaledThisFrame_' = texelsScaledThisFrame_ + 1
    /\ call' = [op |-> "CountScaledTexels"]
    /\ UNCHANGED <<entries, live, lastBoundTexture, dev, clearCacheNextFrame_, buffer,
                   timesInvalidatedAllThisFrame_, replacementTimeThisFrame_>>
    /\ UNCHANGED clutVars

\* loading a replacement adds the time it took
CountReplacementTime ==
    /\ replacementTimeThisFrame_ < MaxCount
    /\ replacementTimeThisFrame_' = replacementTimeThisFrame_ + 1
    /\ call' = [op |-> "CountReplacementTime"]
    /\ UNCHANGED <<entries, live, lastBoundTexture, dev, clearCacheNextFrame_, buffer,
                   timesInvalidatedAllThisFrame_, texelsScaledThisFrame_>>
    /\ UNCHANGED clutVars

(***************************************************************************)
(* Specifications.                                                         *)
(***************************************************************************)
NextClut == LoadClut \/ UpdateCurrentClut
SpecClut == Init /\ [][NextClut]_vars

NextBuild == BuildTextureLevels \/ DoReleaseTexture
SpecBuild == Init /\ [][NextBuild]_vars

NextFrame ==
    \/ DoStartFrame
    \/ ClearNextFrame
    \/ BuildTextureDraw
    \/ DoBindTexture
SpecFrame == Init /\ [][NextFrame]_vars

NextFramebuffer ==
    \/ DoApplyTextureFramebuffer
    \/ SetRenderFrameBuffer
    \/ DoUnbind
SpecFramebuffer == Init /\ [][NextFramebuffer]_vars

NextDebug ==
    \/ DoGetCurrentTextureDebug
    \/ DoReleaseTexture
    \/ DoUnbind
SpecDebug == Init /\ [][NextDebug]_vars

NextFormats ==
    \/ DoGetDestFormat
    \/ DoCheckAlpha
SpecFormats == InitFormats /\ [][NextFormats]_vars

NextSampler == DoApplySamplingParams
SpecSampler == Init /\ [][NextSampler]_vars

NextBind ==
    \/ BindTextureOne
    \/ DoUnbind
    \/ StartFrameOne
    \/ DoInvalidateLastTexture
    \/ DoReleaseTexture
    \/ BuildTextureOne
    \/ ApplyTextureFramebufferOne
    \/ GetCurrentTextureDebugOne
SpecBind == Init /\ [][NextBind]_vars

NextFrameWork ==
    \/ StartFrameOne
    \/ ClearNextFrame
    \/ BuildTextureOne
    \/ BindTextureOne
    \/ DoUnbind
    \/ ApplyTextureFramebufferOne
    \/ InvalidateAll
    \/ CountScaledTexels
    \/ CountReplacementTime
SpecFrameWork == Init /\ [][NextFrameWork]_vars

NextClutHash == LoadClutHash \/ UpdateCurrentClutHash
SpecClutHash == Init /\ [][NextClutHash]_vars

NextPaletteAlpha == LoadClutAlpha \/ ApplyTextureFramebufferAlpha
SpecPaletteAlpha == Init /\ [][NextPaletteAlpha]_vars

NextGeometry == BuildTextureGeometry \/ DoReleaseTexture
SpecGeometry == Init /\ [][NextGeometry]_vars

(***************************************************************************)
(* Properties.                                                             *)
(***************************************************************************)
IsUpdateClut == call.op = "UpdateCurrentClut"

\* entry i = base | (i << 12) for all i in [0,16), for the base that entry 0
\* then is
IsAlphaRamp(clut) == \A i \in 0..15 : clut[i + 1] = RampEntry(clut[1], i)

\* C1 as stated: after UpdateCurrentClut every palette with entry i =
\* base | (i << 12) gives clutAlphaLinear_ true and clutAlphaLinearColor_ =
\* base, and every other palette gives clutAlphaLinear_ false.
C1_AsStated ==
    IsUpdateClut =>
        /\ (IsAlphaRamp(clutBuf_) =>
                clutAlphaLinear_ /\ clutAlphaLinearColor_ = clutBuf_[1])
        /\ (~IsAlphaRamp(clutBuf_) => ~clutAlphaLinear_)

\* C1, amended: the detection runs only for the 4444 palette format with a
\* simple index, and the base is a 12-bit colour (alpha nibble zero).  Then a
\* palette with entry i = base | (i << 12) gives clutAlphaLinear_ true and
\* clutAlphaLinearColor_ = base; every other palette, and every call with
\* another format or a non-simple index, gives clutAlphaLinear_ false.
C1_AlphaLinear ==
    IsUpdateClut =>
        /\ clutAlphaLinear_ <=>
              (/\ call.clutFormat = "GE_CMODE_16BIT_ABGR4444"
               /\ call.clutIndexIsSimple
               /\ IsAlphaRamp(clutBuf_)
               /\ clutBuf_[1] < 4096)
        /\ (clutAlphaLinear_ => clutAlphaLinearColor_ = clutBuf_[1])

\* a ramp over a non-zero 12-bit colour was detected
C1_Witness ==
    /\ IsUpdateClut
    /\ clutAlphaLinear_
    /\ clutAlphaLinearColor_ = 2748
    /\ clutBuf_[16] = 64188

IsBuild == call.op = "BuildTexture"

LevelsOf(log, op) ==
    LET sel == SelectSeq(log, LAMBDA ev : ev.op = op)
    IN [k \in 1..Len(sel) |-> sel[k].level]

Ascending(n) == [k \in 1..n |-> k - 1]

\* C2 as stated: every build creates the texture with min(levelsToCreate,
\* levelsToLoad) levels and loads exactly those levels in ascending order,
\* and no level index >= levelsToLoad is locked or loaded.
C2_AsStated ==
    IsBuild /\ call.planOK =>
        LET n == Min(call.plan.levelsToCreate, call.plan.levelsToLoad)
        IN  /\ call.created.levels = n
            /\ LevelsOf(call.log, "LoadTextureLevel") = Ascending(n)
            /\ \A k \in 1..Len(call.log) : call.log[k].level < call.plan.levelsToLoad

\* C2, amended: a build of a non-volume plan (depth = 1) whose texture was
\* created has min(levelsToCreate, levelsToLoad) mip levels; its destination
\* levels are locked and loaded in ascending order from 0, all of them when
\* no lock fails and those below the first failing lock otherwise; no
\* destination level >= levelsToLoad is locked or loaded.  A volume plan
\* creates a single-level volume texture.
C2_MipClamp ==
    IsBuild /\ call.planOK /\ call.hr = "OK" /\ call.out # NULL_TEX =>
        LET n == Min(call.plan.levelsToCreate, call.plan.levelsToLoad)
            k == Min(call.failAt, n)
        IN  IF call.plan.depth = 1
            THEN /\ call.created.kind = "2D"
                 /\ call.created.levels = n
                 /\ LevelsOf(call.log, "LoadTextureLevel") = Ascending(k)
                 /\ LevelsOf(call.log, "LockRect") = Ascending(k)
                 /\ \A j \in 1..Len(call.log) :
                        call.log[j].level < call.plan.levelsToLoad
                 /\ (call.end = "done" <=> k = n)
            ELSE call.created.kind = "3D" /\ call.created.levels = 1

\* more levels requested than loadable: clamped, and all of them loaded
C2_Witness ==
    /\ IsBuild /\ call.planOK /\ call.end = "done"
    /\ call.plan.depth = 1
    /\ call.plan.levelsToCreate > call.plan.levelsToLoad
    /\ call.created.levels = call.plan.levelsToLoad
    /\ Len(LevelsOf(call.log, "LoadTextureLevel")) = call.plan.levelsToLoad

\* C3: when the replacement reports a size for the base level, the texture
\* is created with the replacement's width, height and format, whatever the
\* decoded geometry and the upscale factor.
C3_ReplacementWins ==
    IsBuild /\ call.planOK
            /\ ReplGetSize(call.plan.replaced, call.plan.baseLevelSrc) =>
        /\ call.created.w = ReplSize(call.plan.replaced, call.plan.baseLevelSrc)[1]
        /\ call.created.h = ReplSize(call.plan.replaced, call.plan.baseLevelSrc)[2]
        /\ call.created.fmt = "D3DFMT_A8R8G8B8"
        /\ FromD3D9Format(call.created.fmt) = call.plan.replaced.fmt

\* a 256x256 replacement of a 64-wide source, built with upscaling configured
C3_Witness ==
    /\ IsBuild /\ call.planOK /\ call.end = "done"
    /\ call.plan.w = 64 /\ call.plan.scaleFactor = 2
    /\ call.format = "GE_TFMT_5650"
    /\ call.created.w = 256 /\ call.created.h = 256

\* C7: when creating the native texture fails, BuildTexture returns with the
\* entry's handle null and the object the device left behind released, no
\* level or slice locked or loaded, and the entry's status flags untouched.
C7_CreateFailure ==
    [][ call'.op = "BuildTexture" /\ call'.planOK /\ call'.hr = "FAILED" =>
          /\ call'.end = "create-failed"
          /\ entries'[call'.e].tex = NULL_TEX
          /\ call'.out \notin live'
          /\ call'.log = <<>>
          /\ entries'[call'.e].status = entries[call'.e].status ]_vars

\* a failed creation that left an object behind, on a volume entry
C7_Witness ==
    /\ IsBuild /\ call.planOK /\ call.hr = "FAILED" /\ call.out # NULL_TEX
    /\ entries[call.e].tex = NULL_TEX
    /\ entries[call.e].status.s3d

\* C8: when the lock of level k fails (or the box lock of a volume), levels
\* 0..k-1 have been loaded and unlocked, no level >= k is loaded, and the
\* entry keeps the native texture that was created.
C8_LockFailure ==
    IsBuild /\ call.end = "lock-failed" =>
        /\ entries[call.e].tex = call.out
        /\ call.out # NULL_TEX /\ call.out \in live
        /\ IF call.plan.depth = 1
           THEN /\ LevelsOf(call.log, "LoadTextureLevel") = Ascending(call.failAt)
                /\ LevelsOf(call.log, "UnlockRect") = Ascending(call.failAt)
                /\ LevelsOf(call.log, "LockRect:failed") = <<call.failAt>>
                /\ call.log[Len(call.log)].op = "LockRect:failed"
           ELSE call.log = <<Ev("LockBox:failed", 0, -1, 0)>>

\* the lock of the second level failed after the first was loaded
C8_Witness ==
    /\ IsBuild /\ call.end = "lock-failed"
    /\ call.failAt = 1
    /\ LevelsOf(call.log, "LoadTextureLevel") = <<0>>
    /\ entries[call.e].tex \in live

\* C9: when planning fails, nothing is created or loaded and the cache
\* entries (handles and status flags) are exactly as before.
C9_Unplannable ==
    [][ call'.op = "BuildTexture" /\ ~call'.planOK =>
          /\ call'.end = "unplannable"
          /\ call'.created = NoCreate
          /\ call'.log = <<>>
          /\ entries' = entries
          /\ live' = live ]_vars

\* planning failed for an entry that holds a texture
C9_Witness ==
    /\ IsBuild /\ ~call.planOK
    /\ entries[call.e].tex # NULL_TEX
    /\ entries[call.e].status.s3d

\* C4 as stated: every StartFrame invokes Decimate exactly once.
C4_AsStated == call.op = "StartFrame" => call.decimateCalls = 1

\* C4, amended: a StartFrame invokes Decimate exactly once when no full clear
\* is pending; when clearCacheNextFrame_ is set it runs Clear(true) instead
\* and does not invoke Decimate.
C4_DecimateOrClear ==
    call.op = "StartFrame" =>
        /\ call.decimateCalls = (IF call.clearRequested THEN 0 ELSE 1)
        /\ call.clearCalls = (IF call.clearRequested THEN 1 ELSE 0)
        /\ ~clearCacheNextFrame_
        /\ (call.clearRequested =>
                \A e \in Entries : entries[e].tex = NULL_TEX)

\* a frame started with a clear pending: the cache was cleared, Decimate
\* did not run
C4_Witness ==
    /\ call.op = "StartFrame"
    /\ call.clearRequested
    /\ call.clearCalls = 1 /\ call.decimateCalls = 0

IsApplyFb == call.op = "ApplyTextureFramebuffer"

\* positions in the call log of the calls named op
At(log, op) == { i \in 1..Len(log) : log[i].op = op }

\* the palette-resolve pass ran: a draw was issued
DepalRan(log) == At(log, "DrawPrimitiveUP") # {}

\* the direct bind ran: the source framebuffer (or its copy) was bound for
\* sampling with the copy-allowed flags
DirectRan(log) ==
    \E i \in At(log, "BindFramebufferAsColorTexture") :
        log[i].flags = "MAY_COPY_WITH_UV|APPLY_TEX_OFFSET"

\* C5: ApplyTextureFramebuffer takes exactly one of its two paths: the
\* palette-resolve pass when the texture format is indexed and slow
\* framebuffer effects are not disabled, the direct bind when the format is
\* not indexed; never both, never neither.
C5_OnePath ==
    IsApplyFb =>
        /\ DepalRan(call.log) # DirectRan(call.log)
        /\ (IsClutFormat(call.in.texFormat) /\ ~call.in.bDisableSlowFramebufEffects
                => DepalRan(call.log))
        /\ (~IsClutFormat(call.in.texFormat) => DirectRan(call.log))

\* an indexed format resolved through the palette pass, without a direct bind
C5_Witness ==
    /\ IsApplyFb
    /\ IsClutFormat(call.in.texFormat)
    /\ ~call.in.bDisableSlowFramebufEffects
    /\ DepalRan(call.log) /\ ~DirectRan(call.log)

\* the direct path taken for a format that is not indexed
C5_WitnessDirect ==
    /\ IsApplyFb
    /\ ~IsClutFormat(call.in.texFormat)
    /\ DirectRan(call.log) /\ ~DepalRan(call.log)

\* C6: the palette-resolve pass draws into the scratch DEPAL target and never
\* into the source framebuffer: the scratch target is bound as render target
\* before the source is bound for sampling, both before the draw, and at the
\* draw the render target is not bound to a texture unit.
C6_ScratchTarget ==
    IsApplyFb /\ DepalRan(call.log) =>
        \A d \in At(call.log, "DrawPrimitiveUP") :
            /\ call.log[d].rt = GetTempFBO
            /\ call.log[d].rt # FbObj(call.in.fb)
            /\ call.log[d].tex0 = FbObj(call.in.fb)
            /\ call.log[d].tex0 # call.log[d].rt
            /\ call.log[d].tex1 # call.log[d].rt
            /\ \E r \in At(call.log, "BindFramebufferAsRenderTarget"),
                  t \in At(call.log, "BindFramebufferAsColorTexture") :
                    /\ r < t /\ t < d
                    /\ call.log[r].obj = GetTempFBO
                    /\ call.log[t].obj = FbObj(call.in.fb)
                    /\ \A j \in r..d : call.log[j].rt = GetTempFBO

\* a palette-resolve pass whose source framebuffer is the one being rendered
\* to when the pass starts
C6_Witness ==
    /\ IsApplyFb
    /\ DepalRan(call.log)
    /\ call.in.fb = dev.curFb
    /\ dev.rt = FbObj(call.in.fb)
    /\ dev.tex0 = GetTempFBO

IsDebug == call.op = "GetCurrentTextureDebug"

\* C10 as stated: a failed read-back leaves the cache entries, the last-bound
\* memo and the output buffer as they were before the call.
C10_AsStated ==
    [][ call'.op = "GetCurrentTextureDebug" /\ ~call'.success =>
          /\ entries' = entries
          /\ lastBoundTexture' = lastBoundTexture
          /\ buffer' = buffer ]_vars

\* C10, amended: a failed read-back returns false and leaves the output
\* buffer unchanged; the cache (entries, native textures held, last-bound
\* memo, device bindings) is left exactly as the SetTexture/ApplyTexture
\* calls that open every GetCurrentTextureDebug leave it: the read-back adds
\* no change of its own.
C10_FailureKeepsBuffer ==
    [][ call'.op = "GetCurrentTextureDebug" /\ ~call'.success =>
          /\ buffer' = buffer
          /\ <<entries', live', lastBoundTexture', dev'>> =
                LET S1 == SetTextureApplyTexture(Cur, call'.apply, clutBuf_, clutMaxBytes_)
                IN <<S1.entries, S1.live, S1.lastBoundTexture, S1.dev>> ]_vars

\* a read-back that failed on an unsupported surface format after the lock
\* succeeded, with a buffer filled by an earlier call, on a texture the
\* call itself built and bound
C10_Witness ==
    /\ IsDebug
    /\ ~call.success
    /\ call.ans.lockRect
    /\ call.ans.format = "D3DFMT_DXT1"
    /\ "LockRect:tex" \in { call.res[i] : i \in 1..Len(call.res) }
    /\ buffer.allocated
    /\ call.apply.kind = "texture"
    /\ lastBoundTexture = entries[call.apply.e].tex
    /\ lastBoundTexture \in Handles

\* the render target ApplyTextureFramebuffer found bound: the framebuffer
\* being rendered to, or the back buffer
OriginalRenderTarget == IF dev.curFb = 0 THEN BackBuffer ELSE FbObj(dev.curFb)

\* C11 as stated: on both paths of ApplyTextureFramebuffer, after the output
\* is bound at texture unit 0 the original render target is bound again and
\* the render state is told to refresh its texture state.
C11_AsStated ==
    IsApplyFb =>
        /\ \E r \in At(call.log, "RebindFramebuffer") :
              /\ \A t \in 1..Len(call.log) : call.log[t].tex0 # call.log[r].tex0 => t < r
              /\ call.log[r].rt = OriginalRenderTarget
        /\ dev.rt = OriginalRenderTarget
        /\ At(call.log, "Dirty") # {}

\* C12: with no replacement, an upscale factor above 1 multiplies width and
\* height by the factor and forces the format A8R8G8B8 whatever the guest
\* format; a factor of 1 keeps width, height and the mapped guest format.
C12_ScaleFactor ==
    IsBuild /\ call.planOK
            /\ ~ReplGetSize(call.plan.replaced, call.plan.baseLevelSrc) =>
        IF call.plan.scaleFactor > 1
        THEN /\ call.created.w = call.plan.w * call.plan.scaleFactor
             /\ call.created.h = call.plan.h * call.plan.scaleFactor
             /\ call.created.fmt = "D3DFMT_A8R8G8B8"
        ELSE /\ call.created.w = call.plan.w
             /\ call.created.h = call.plan.h
             /\ call.created.fmt = GetDestFormat(call.format, call.clutFormat)
             /\ (call.format = "GE_TFMT_5650" => call.created.fmt = "D3DFMT_R5G6B5")
             /\ (call.format = "GE_TFMT_CLUT4" => call.created.fmt = "D3DFMT_A4R4G4B4")

\* a 16-bit source without replacement created at twice its size, in the
\* 32-bit format
C12_Witness ==
    /\ IsBuild /\ call.planOK /\ call.end = "done"
    /\ ~call.plan.replaced.valid
    /\ call.plan.scaleFactor = 2
    /\ call.format = "GE_TFMT_5650"
    /\ call.created.w = 128 /\ call.created.h = 64
    /\ call.created.fmt = "D3DFMT_A8R8G8B8"

\* C13: GetDestFormat is a fixed table: an indexed format gives the palette
\* format's destination format; 4444, 5551 and 5650 map one to one; 8888,
\* the DXT formats and any other value give A8R8G8B8. Only for indexed
\* formats does the palette format matter.
C13_DestFormatTable ==
    call.op = "GetDestFormat" =>
        /\ call.result \in DestFormats
        /\ (call.format \in {"GE_TFMT_CLUT4", "GE_TFMT_CLUT8", "GE_TFMT_CLUT16",
                              "GE_TFMT_CLUT32"} =>
               /\ (call.clutFormat = "GE_CMODE_16BIT_ABGR4444" => call.result = "D3DFMT_A4R4G4B4")
               /\ (call.clutFormat = "GE_CMODE_16BIT_ABGR5551" => call.result = "D3DFMT_A1R5G5B5")
               /\ (call.clutFormat = "GE_CMODE_16BIT_BGR5650" => call.result = "D3DFMT_R5G6B5")
               /\ (call.clutFormat = "GE_CMODE_32BIT_ABGR8888" => call.result = "D3DFMT_A8R8G8B8"))
        /\ (call.format = "GE_TFMT_4444" => call.result = "D3DFMT_A4R4G4B4")
        /\ (call.format = "GE_TFMT_5551" => call.result = "D3DFMT_A1R5G5B5")
        /\ (call.format = "GE_TFMT_5650" => call.result = "D3DFMT_R5G6B5")
        /\ (call.format \in {"GE_TFMT_8888", "GE_TFMT_DXT1", "GE_TFMT_DXT3",
                              "GE_TFMT_DXT5", "GE_TFMT_OTHER"} =>
               call.result = "D3DFMT_A8R8G8B8")

\* an indexed format resolved through a 16-bit palette format
C13_Witness ==
    /\ call.op = "GetDestFormat"
    /\ call.format = "GE_TFMT_CLUT8"
    /\ call.clutFormat = "GE_CMODE_16BIT_ABGR5551"
    /\ call.result = "D3DFMT_A1R5G5B5"

\* C14: for the 5-6-5 destination format CheckAlpha reports fully opaque for
\* every content and width; for the other formats the result is fully opaque
\* exactly when every scanned pixel has all bits of the format's alpha mask
\* set (the top nibble for 4444, the top bit for 5551, the top byte of the
\* 32-bit pixel otherwise).
C14_CheckAlpha ==
    call.op = "CheckAlpha" =>
        LET full == call.result = "CHECKALPHA_FULL"
        IN  /\ call.result \in {"CHECKALPHA_FULL", "CHECKALPHA_ANY"}
            /\ (call.dstFmt = "D3DFMT_R5G6B5" => full)
            /\ (call.dstFmt = "D3DFMT_A4R4G4B4" =>
                   (full <=> \A i \in 1..call.w : call.pixels[i] \div 4096 = 15))
            /\ (call.dstFmt = "D3DFMT_A1R5G5B5" =>
                   (full <=> \A i \in 1..call.w : call.pixels[i] >= 32768))
            /\ (call.dstFmt = "D3DFMT_A8R8G8B8" =>
                   (full <=> \A i \in 1..call.w : call.pixels[2 * i] \div 256 = 255))

\* 5-6-5 pixels whose top bits are clear, reported fully opaque
C14_Witness ==
    /\ call.op = "CheckAlpha"
    /\ call.dstFmt = "D3DFMT_R5G6B5"
    /\ call.w = 2
    /\ call.pixels[1] = 4095 /\ call.pixels[2] = 4095
    /\ call.result = "CHECKALPHA_FULL"

\* C15: ApplySamplingParams yields a sampler state for every key. With
\* mip-mapping disabled the max mip level is 0 and the LOD bias the fixed
\* value -100, whatever the key's bias and minimum level; with mip-mapping
\* enabled the bias is key.lodBias/256 and the max mip level key.minLevel/256.
\* An axis clamps exactly when its clamp flag is set.
C15_SamplingParams ==
    call.op = "ApplySamplingParams" =>
        LET key == call.key
            samp == dev.samp
        IN  /\ samp.minFilter \in {"D3DTEXF_LINEAR", "D3DTEXF_POINT"}
            /\ samp.mipFilter \in {"D3DTEXF_LINEAR", "D3DTEXF_POINT"}
            /\ samp.magFilter \in {"D3DTEXF_LINEAR", "D3DTEXF_POINT"}
            /\ (~key.mipEnable =>
                   /\ samp.maxMipLevel = 0
                   /\ samp.mipLodBias = -100 * 256)
            /\ (key.mipEnable =>
                   /\ samp.mipLodBias = key.lodBias
                   /\ samp.maxMipLevel * 256 <= key.minLevel
                   /\ key.minLevel < (samp.maxMipLevel + 1) * 256)
            /\ (samp.addressU = "D3DTADDRESS_CLAMP" <=> key.sClamp)
            /\ (samp.addressV = "D3DTADDRESS_CLAMP" <=> key.tClamp)
            /\ samp.addressU \in {"D3DTADDRESS_CLAMP", "D3DTADDRESS_WRAP"}
            /\ samp.addressV \in {"D3DTADDRESS_CLAMP", "D3DTADDRESS_WRAP"}

\* a key with mip-mapping disabled but a bias and a minimum level set
C15_Witness ==
    /\ call.op = "ApplySamplingParams"
    /\ ~call.key.mipEnable
    /\ call.key.lodBias = 128 /\ call.key.minLevel = 700
    /\ dev.samp.maxMipLevel = 0
    /\ dev.samp.mipLodBias = ForceTopMipLodBias

\* the native texture h still exists: the cache or the device holds it
Alive(h) == h \in live \/ dev.tex0 = TexObj(h)

\* C16 as stated: the memoized lastBoundTexture is the invalid sentinel, or
\* it is the texture set at device unit 0 and that texture is alive; and
\* whenever BindTexture skips the device call, unit 0 holds the entry's
\* texture.
C16_AsStated ==
    /\ \/ lastBoundTexture = INVALID_TEX
       \/ /\ dev.tex0 = TexObj(lastBoundTexture)
          /\ (lastBoundTexture # NULL_TEX => Alive(lastBoundTexture))
    /\ (call.op = "BindTexture" /\ ~call.setTexture =>
           dev.tex0 = TexObj(entries[call.e].tex))

\* C17: a requested clear is performed by the next StartFrame and consumed.
\* Every StartFrame ends with clearCacheNextFrame_ false, the three per-frame
\* counters zero and lastBoundTexture invalid; it clears exactly when a clear
\* was requested, and only a new request sets the flag again; from the
\* invalid memo only BindTexture sets a texture, and it then issues the
\* device SetTexture, so the first BindTexture of a frame always does.
C17_ClearConsumed ==
    /\ [](call.op = "StartFrame" =>
            /\ ~clearCacheNextFrame_
            /\ timesInvalidatedAllThisFrame_ = 0
            /\ texelsScaledThisFrame_ = 0
            /\ replacementTimeThisFrame_ = 0
            /\ lastBoundTexture = INVALID_TEX
            /\ (call.clearRequested => \A e \in Entries : entries[e].tex = NULL_TEX))
    /\ [][call'.op = "StartFrame" =>
            /\ call'.clearRequested = clearCacheNextFrame_
            /\ call'.clearCalls = (IF clearCacheNextFrame_ THEN 1 ELSE 0)]_vars
    /\ [][~clearCacheNextFrame_ /\ clearCacheNextFrame_' =>
            call'.op = "ClearNextFrame"]_vars
    /\ [][lastBoundTexture = INVALID_TEX /\ lastBoundTexture' # INVALID_TEX =>
            call'.op = "BindTexture"]_vars
    /\ [][lastBoundTexture = INVALID_TEX /\ call'.op = "BindTexture" =>
            /\ call'.setTexture
            /\ dev'.tex0 = TexObj(entries[call'.e].tex)]_vars

\* a frame started with a clear pending while a texture of the previous
\* frame is still set at unit 0
C17_Witness ==
    /\ call.op = "StartFrame"
    /\ call.clearRequested /\ call.clearCalls = 1
    /\ ~clearCacheNextFrame_
    /\ lastBoundTexture = INVALID_TEX
    /\ dev.tex0 \in { TexObj(h) : h \in Handles }
    /\ timesInvalidatedAllThisFrame_ = 0

\* C18: UpdateCurrentClut hashes the first
\* min(clutTotalBytes_ + clutBase * bytesPerEntry, clutMaxBytes_) bytes of the
\* palette buffer, bytesPerEntry being 4 for the 32-bit palette format and 2
\* otherwise: never more than clutMaxBytes_, never fewer than
\* min(clutTotalBytes_, clutMaxBytes_).
C18_HashedLength ==
    IsUpdateClut =>
        LET bytesPerEntry == IF call.clutFormat = "GE_CMODE_32BIT_ABGR8888" THEN 4 ELSE 2
            want == clutTotalBytes_ + call.clutBase * bytesPerEntry
            n == clutHash_.len
        IN  /\ n = (IF want <= clutMaxBytes_ THEN want ELSE clutMaxBytes_)
            /\ n <= clutMaxBytes_
            /\ (clutTotalBytes_ <= clutMaxBytes_ => n >= clutTotalBytes_)
            /\ (clutTotalBytes_ > clutMaxBytes_ => n = clutMaxBytes_)
            /\ call.hashedBytes = n
            /\ clutHash_.data = [i \in 1..(n \div 2) |-> clutBuf_[i]]

\* a 16-byte upload hashed with a base offset that reaches past the 32 bytes
\* ever uploaded: the length is capped
C18_Witness ==
    /\ IsUpdateClut
    /\ call.clutFormat = "GE_CMODE_16BIT_ABGR4444"
    /\ call.clutBase = 16
    /\ clutTotalBytes_ = 16 /\ clutMaxBytes_ = 32
    /\ clutHash_.len = 32

\* this UpdateCurrentClut call has the palette bytes, clutTotalBytes_,
\* format, base offset and index flag of the call kept earlier
SameClutInputs ==
    /\ IsUpdateClut
    /\ call.ref.set
    /\ clutBuf_ = call.ref.clutBuf_
    /\ clutTotalBytes_ = call.ref.clutTotalBytes_
    /\ call.clutFormat = call.ref.clutFormat
    /\ call.clutBase = call.ref.clutBase
    /\ call.clutIndexIsSimple = call.ref.clutIndexIsSimple

\* C19 as stated: two UpdateCurrentClut calls with the same palette bytes,
\* clutTotalBytes_, format, base offset and index flag leave the same
\* clutHash_, clutAlphaLinear_ and clutAlphaLinearColor_.
C19_AsStated ==
    SameClutInputs =>
        /\ clutHash_ = call.ref.clutHash_
        /\ clutAlphaLinear_ = call.ref.clutAlphaLinear_
        /\ clutAlphaLinearColor_ = call.ref.clutAlphaLinearColor_

\* this call has the palette bytes, format and index flag of the kept call
SameClutContents ==
    /\ IsUpdateClut
    /\ call.ref.set
    /\ clutBuf_ = call.ref.clutBuf_
    /\ call.clutFormat = call.ref.clutFormat
    /\ call.clutIndexIsSimple = call.ref.clutIndexIsSimple

\* C19, amended: two calls with the same palette bytes, format and index
\* flag leave the same clutAlphaLinear_ and clutAlphaLinearColor_; they
\* leave the same clutHash_ when, in addition, clutTotalBytes_, the base
\* offset, clutMaxBytes_ and the replacement setting (which selects the
\* digest) are the same at both calls.
C19_HashStable ==
    /\ SameClutContents =>
            /\ clutAlphaLinear_ = call.ref.clutAlphaLinear_
            /\ clutAlphaLinearColor_ = call.ref.clutAlphaLinearColor_
    /\ (/\ SameClutInputs
        /\ clutMaxBytes_ = call.ref.clutMaxBytes_
        /\ call.replacerEnabled = call.ref.replacerEnabled)
       => clutHash_ = call.ref.clutHash_

\* a call repeating an earlier one after other palettes were loaded and
\* hashed in between, with the same digest
C19_Witness ==
    /\ SameClutInputs
    /\ ~call.ref.fresh
    /\ clutMaxBytes_ = call.ref.clutMaxBytes_
    /\ call.replacerEnabled = call.ref.replacerEnabled
    /\ call.clutFormat = "GE_CMODE_32BIT_ABGR8888"
    /\ clutTotalBytes_ = 16 /\ clutMaxBytes_ = 32
    /\ clutHash_ = call.ref.clutHash_
    /\ clutHash_.len > 0

\* palette entry i, read in the palette's destination format, has every
\* alpha bit set (5650 has no alpha bits; an 8888 entry is two words, alpha
\* in the top byte of the second)
OpaqueEntry(clutFormat, i) ==
    CASE clutFormat = "GE_CMODE_16BIT_ABGR4444" -> BitAnd(clutBuf_[i], 61440) = 61440
      [] clutFormat = "GE_CMODE_16BIT_ABGR5551" -> BitAnd(clutBuf_[i], 32768) = 32768
      [] clutFormat = "GE_CMODE_16BIT_BGR5650"  -> TRUE
      [] clutFormat = "GE_CMODE_32BIT_ABGR8888" -> BitAnd(clutBuf_[2 * i], 65280) = 65280

\* the entries the loaded palette bytes cover
PaletteEntries(clutFormat) ==
    1..(clutMaxBytes_ \div (IF clutFormat = "GE_CMODE_32BIT_ABGR8888" THEN 4 ELSE 2))

\* C20: after the palette-resolve pass the full-alpha flag is true iff every
\* loaded palette entry is opaque in the palette's destination format; after
\* the direct bind it is true iff the guest texture format is 5650.
C20_FullAlpha ==
    IsApplyFb =>
        /\ DepalRan(call.log) =>
               (dev.textureFullAlpha <=>
                    \A i \in PaletteEntries(call.in.clutFormat) :
                        OpaqueEntry(call.in.clutFormat, i))
        /\ DirectRan(call.log) =>
               (dev.textureFullAlpha <=> call.in.texFormat = "GE_TFMT_5650")

\* a palette-resolve pass over a 5551 palette whose entries are opaque in
\* 5551 but not in 4444: the flag is set
C20_Witness ==
    /\ IsApplyFb
    /\ DepalRan(call.log)
    /\ call.in.clutFormat = "GE_CMODE_16BIT_ABGR5551"
    /\ clutMaxBytes_ = 32
    /\ clutBuf_[1] = 36863
    /\ dev.textureFullAlpha

\* the build of the last step ran to its end on a volume plan
VolumeBuilt == IsBuild /\ call.planOK /\ call.plan.depth > 1 /\ call.end = "done"

\* the call log is one box lock, the slices 0..depth-1 in ascending order
\* with slice i at i slice pitches from the locked base, and one unlock
VolumeLog(log, depth) ==
    /\ Len(log) = depth + 2
    /\ At(log, "LockBox") = {1}
    /\ At(log, "UnlockBox") = {depth + 2}
    /\ \A i \in 0..(depth - 1) :
          /\ log[i + 2].op = "LoadTextureLevel"
          /\ log[i + 2].level = i
          /\ log[i + 2].off = i

\* C21: a volume build that runs to completion locks the box once, loads
\* slices 0..depth-1 in ascending order with slice i at the locked base plus
\* i slice pitches, unlocks once after the last slice and leaves STATUS_3D
\* set; a build of a depth-1 plan touches no box; and STATUS_3D is turned
\* on only by a completed build of a plan with depth > 1.
C21_VolumeBuild ==
    /\ [](VolumeBuilt =>
            /\ VolumeLog(call.log, call.plan.depth)
            /\ entries[call.e].status.s3d)
    /\ [](IsBuild /\ call.planOK /\ call.plan.depth = 1 =>
            At(call.log, "LockBox") \cup At(call.log, "UnlockBox")
                \cup At(call.log, "LockBox:failed") = {})
    /\ [][\A e \in Entries :
            entries'[e].status.s3d /\ ~entries[e].status.s3d =>
                /\ call'.op = "BuildTexture" /\ call'.e = e
                /\ call'.planOK /\ call'.plan.depth > 1
                /\ call'.end = "done"]_vars

\* a completed volume build of MaxLevels slices
C21_Witness ==
    /\ VolumeBuilt
    /\ call.plan.depth = MaxLevels
    /\ Len(call.log) = MaxLevels + 2
    /\ call.log[MaxLevels + 1].off = MaxLevels - 1
    /\ entries[call.e].status.s3d

\* how often s occurs in the list of references and locks of a read-back
Count(res, s) == Cardinality({ i \in 1..Len(res) : res[i] = s })

\* every s of res is followed by one t, and there is no other t
PairedOnce(res, s, t) ==
    /\ Count(res, s) = Count(res, t)
    /\ \A i \in 1..Len(res) : res[i] = s =>
          Cardinality({ j \in (i + 1)..Len(res) : res[j] = t }) = 1

\* C22 as stated: when GetCurrentTextureDebug returns, each of the base
\* texture, the queried 2D texture, the render-target surface and the
\* offscreen surface it obtained has been released exactly once, and each
\* lock it took has been unlocked exactly once.
C22_AsStated ==
    IsDebug =>
        /\ PairedOnce(call.res, "GetTexture:baseTex", "Release:baseTex")
        /\ PairedOnce(call.res, "QueryInterface:tex", "Release:tex")
        /\ PairedOnce(call.res, "GetSurfaceLevel:renderTarget", "Release:renderTarget")
        /\ PairedOnce(call.res, "CreateOffscreenPlainSurface:offscreen",
                      "Release:offscreen")
        /\ PairedOnce(call.res, "LockRect:tex", "UnlockRect:tex")
        /\ PairedOnce(call.res, "LockRect:offscreen", "UnlockRect:offscreen")

====
